---- MODULE Spec2Model ----
(***************************************************************************)
(* Model of main.py: the training / inference orchestrator (main), the     *)
(* end-point-error loss (compute_epe_error) and the checkpoint save step.  *)
(*                                                                         *)
(* Three specifications share the module:                                  *)
(*   Spec      one execution of main(), statement by statement;            *)
(*   SpecEpe   compute_epe_error applied to tensors of bounded shapes;     *)
(*   SpecSave  the checkpoint save step (lines 167-174) of two executions  *)
(*             of main() that share one checkpoints directory.             *)
(* The collaborators (EVFlowNet, DataLoader, Adam, torch.save/load, the    *)
(* file system, the wall clock) are modelled by what main() can observe of *)
(* them; their failures and the values they return are nondeterministic.   *)
(***************************************************************************)
EXTENDS Integers, Sequences, FiniteSets, TLC

\* ------------------------------------------------------------------ bounds
MaxEpochs == 2        \* args.train.epochs ranges over 0..MaxEpochs
MaxTrain == 2         \* len(train_set) ranges over 0..MaxTrain
MaxTest == 3          \* len(test_set) ranges over 0..MaxTest
MaxBatchSize == 2     \* both batch_size options range over 1..MaxBatchSize
MaxLoss == 1          \* loss.item() ranges over 0..MaxLoss
MaxClock == 3         \* the wall clock, in ticks, ranges over 0..MaxClock
TicksPerSecond == 2   \* clock ticks per second: the clock is finer than a second
MaxDim == 2           \* every tensor dimension ranges over 1..MaxDim

\* The timestamp of the path of line 179 ("20240717034219"), as the second
\* the clock counts from.
HardcodedStamp == 0

VARIABLES
  \* ---- Spec: one execution of main()
  pc,            \* the statement main() executes next
  error,         \* the uncaught exception that ended the run, or NoError
  args,          \* the configuration (DictConfig)
  train_set,     \* len(train_set)
  test_set,      \* len(test_set)
  trace,         \* history: the calls main() has made, in order
  params,        \* model.state_dict()
  mode,          \* "train" / "eval" (model.train(), model.eval())
  epoch,         \* the loop variable of line 136
  i,             \* the loop variable of line 139
  train_iter,    \* the batches the iterator of line 139 delivers this epoch
  batch,         \* the current batch (its sample ids)
  flow,          \* line 143 (training) and lines 182, 189 (submission tensor)
  loss,          \* line 144
  grads,         \* the batches whose gradients are accumulated in .grad
  total_loss,    \* line 137, 150
  report,        \* what line 151 printed last
  epoch_losses,  \* history: the losses line 145 printed in the current epoch
  dir_exists,    \* what os.path.exists('checkpoints') returned / makedirs made
  current_time,  \* line 171
  model_path,    \* lines 172, 179
  ckpt_files,    \* checkpoint files this run has written: path -> state_dict
  saved,         \* history: the (path, state_dict) torch.save was given
  test_iter,     \* the batches the iterator of line 185 delivers
  j,             \* test batches consumed
  batch_preds,   \* history: flow_ of every test batch, in encounter order
  submission,    \* the array np.save wrote, or NoFile
  \* ---- SpecEpe
  pred_shape, gt_shape, epe,
  \* ---- SpecSave
  runs, ckpt_dir, clock, dir_files

mainVars == <<pc, error, args, train_set, test_set, trace, params, mode, epoch,
              i, train_iter, batch, flow, loss, grads, total_loss, report,
              epoch_losses, dir_exists, current_time, model_path, ckpt_files,
              saved, test_iter, j, batch_preds, submission>>
epeVars == <<pred_shape, gt_shape, epe>>
saveVars == <<runs, ckpt_dir, clock, dir_files>>
idleVars == <<epeVars, saveVars>>
vars == <<mainVars, epeVars, saveVars>>

\* ----------------------------------------------------------------- helpers
NoError == [kind |-> "none", at |-> "none"]
NoReport == [epoch |-> -1, num |-> 0, den |-> 1]
NoPath == [root |-> "", dir |-> "", stamp |-> -1]
NoSave == [path |-> NoPath, state |-> [origin |-> "none", steps |-> 0]]
NoFile == <<[sample |-> -1, params |-> [origin |-> "none", steps |-> 0]]>>

Ev(op, e, b) == [op |-> op, epoch |-> e, idx |-> b]
Count(op) == Cardinality({k \in DOMAIN trace : trace[k].op = op})
\* the position of the first / last call of op in the trace (0: never called)
First(op) ==
  IF Count(op) = 0 THEN 0
  ELSE CHOOSE k \in DOMAIN trace :
         trace[k].op = op /\ \A m \in 1..(k-1) : trace[m].op # op
Last(op) ==
  IF Count(op) = 0 THEN 0
  ELSE CHOOSE k \in DOMAIN trace :
         trace[k].op = op /\ \A m \in (k+1)..Len(trace) : trace[m].op # op

RECURSIVE SumSeq(_)
SumSeq(s) == IF s = <<>> THEN 0 ELSE Head(s) + SumSeq(Tail(s))

Min(a, b) == IF a < b THEN a ELSE b

\* ------------------------------------------------- DataLoader (lines 100-130)
\* len(DataLoader) with drop_last=False: ceil(n / batch_size)
LenLoader(n, bs) == (n + bs - 1) \div bs

\* the orders a sampler can deliver n samples in: SequentialSampler when
\* shuffle is false, RandomSampler (any permutation) when it is true
Orders(n, shuffle) ==
  IF shuffle
  THEN {o \in [1..n -> 1..n] : \A a, b \in 1..n : o[a] = o[b] => a = b}
  ELSE {[k \in 1..n |-> k]}

\* the batches of one pass over the loader: consecutive chunks of batch_size
\* samples of the sampler's order, the last one partial (drop_last=False)
Batches(order, bs) ==
  [k \in 1..LenLoader(Len(order), bs) |->
     SubSeq(order, (k - 1) * bs + 1, Min(k * bs, Len(order)))]

\* ------------------------------------------------------------- EVFlowNet
InitParams == [origin |-> "init", steps |-> 0]
\* a checkpoint file this run did not write holds some other state_dict
ForeignParams == [origin |-> "foreign", steps |-> 0]

\* model(event_image): one row of primary flow per sample of the batch, a
\* function of the parameters and of the sample
ModelForward(p, b) == [k \in 1..Len(b) |-> [sample |-> b[k], params |-> p]]

\* optimizer.step(): Adam maps the parameters to new ones
AdamStep(p) == [p EXCEPT !.steps = @ + 1]

\* torch.cat((flow, flow_), dim=0)
\* (variant: the operands swapped, torch.cat((flow_, flow), dim=0))
CatPrepend(a, b) == b \o a
Cat(a, b) == a \o b

\* ------------------------------------------------------------ checkpoints
\* time.strftime("%Y%m%d%H%M%S"): the wall clock cut to the second
\* (variant: a format of coarser resolution than the second)
StrftimeCoarse(t) == t \div (2 * TicksPerSecond)
Strftime(t) == t \div TicksPerSecond

\* f"checkpoints/model_{current_time}.pth", relative to the working directory
CkptPath(stamp) == [root |-> ".", dir |-> "checkpoints", stamp |-> stamp]
\* line 179
HardcodedPath ==
  [root |-> "/content/dl_lecture_competition_pub", dir |-> "checkpoints",
   stamp |-> HardcodedStamp]
\* the working directories the run may have been started in
Cwds == {"/content/dl_lecture_competition_pub", "/elsewhere"}
Resolve(cwd, p) == IF p.root = "." THEN [p EXCEPT !.root = cwd] ELSE p

WriteFile(fs, p, content) ==
  [q \in DOMAIN fs \cup {p} |-> IF q = p THEN content ELSE fs[q]]

\* --------------------------------------------------------------- failures
\* main() has no try/except: an exception raised by any statement ends the
\* run where it is raised
\* (variant: the exception is caught and the statement attempted again)
RaiseAndRetry(kind) ==
  /\ error' = [kind |-> kind, at |-> pc]
  /\ UNCHANGED <<idleVars, pc, args, train_set, test_set, trace, params, mode, epoch, i,
                 train_iter, batch, flow, loss, grads, total_loss, report,
                 epoch_losses, dir_exists, current_time, model_path,
                 ckpt_files, saved, test_iter, j, batch_preds, submission>>
Raise(kind) ==
  /\ pc' = "failed"
  /\ error' = [kind |-> kind, at |-> pc]
  /\ UNCHANGED <<idleVars, args, train_set, test_set, trace, params, mode, epoch, i,
                 train_iter, batch, flow, loss, grads, total_loss, report,
                 epoch_losses, dir_exists, current_time, model_path,
                 ckpt_files, saved, test_iter, j, batch_preds, submission>>

trainVars == <<epoch, i, train_iter, batch, loss, grads, total_loss, report,
               epoch_losses>>
ckptVars == <<dir_exists, current_time, model_path, ckpt_files, saved>>
testVars == <<test_iter, j, batch_preds, submission>>
cfgVars == <<args, train_set, test_set>>

\* ------------------------------------------------------------------- Init
Configs ==
  [epochs : 0..MaxEpochs,
   train_batch_size : 1..MaxBatchSize, train_shuffle : BOOLEAN,
   test_batch_size : 1..MaxBatchSize, test_shuffle : BOOLEAN]

MainRest ==
  /\ error = NoError
  /\ trace = <<>>
  /\ params = [origin |-> "none", steps |-> 0] /\ mode = "none"
  /\ epoch = 0 /\ i = 0 /\ train_iter = <<>> /\ batch = <<>> /\ flow = <<>>
  /\ loss = 0 /\ grads = {} /\ total_loss = 0 /\ report = NoReport
  /\ epoch_losses = <<>>
  /\ dir_exists = FALSE /\ current_time = -1 /\ model_path = NoPath
  /\ ckpt_files = <<>> /\ saved = NoSave
  /\ test_iter = <<>> /\ j = 0 /\ batch_preds = <<>> /\ submission = NoFile

EpeIdle == pred_shape = <<>> /\ gt_shape = <<>> /\ epe = [kind |-> "idle", shape |-> <<>>]
SaveIdle == runs = <<>> /\ ckpt_dir = FALSE /\ clock = 0 /\ dir_files = <<>>

\* main() is not running (SpecEpe, SpecSave)
MainIdle ==
  /\ pc = "idle"
  /\ args = [epochs |-> 0, train_batch_size |-> 1, train_shuffle |-> FALSE,
             test_batch_size |-> 1, test_shuffle |-> FALSE]
  /\ train_set = 0 /\ test_set = 0
  /\ MainRest

Init ==
  /\ args \in Configs
  /\ train_set \in 0..MaxTrain
  /\ test_set \in 0..MaxTest
  /\ pc = "set_seed"
  /\ MainRest
  /\ EpeIdle /\ SaveIdle

\* ---------------------------------------------------------------- actions
\* line 66
SetSeed ==
  /\ pc = "set_seed"
  /\ trace' = Append(trace, Ev("set_seed", -1, -1))
  /\ pc' = "build_loaders"
  /\ UNCHANGED <<idleVars, error, cfgVars, params, mode, flow, trainVars, ckptVars, testVars>>

\* lines 92-130: the dataset provider and the two DataLoaders. A RandomSampler
\* over an empty dataset may refuse to be built (ValueError).
BuildLoaders ==
  /\ pc = "build_loaders"
  /\ \/ /\ trace' = trace \o <<Ev("DataLoader_train", -1, -1), Ev("DataLoader_test", -1, -1)>>
        /\ pc' = "build_model"
        /\ UNCHANGED <<idleVars, error, cfgVars, params, mode, flow, trainVars, ckptVars, testVars>>
     \/ /\ \/ (args.train_shuffle /\ train_set = 0)
           \/ (args.test_shuffle /\ test_set = 0)
        /\ Raise("ValueError")

\* lines 132-135: EVFlowNet(...), Adam(...), model.train()
BuildModel ==
  /\ pc = "build_model"
  /\ params' = InitParams
  /\ mode' = "train"
  /\ trace' = trace \o <<Ev("EVFlowNet", -1, -1), Ev("Adam", -1, -1)>>
  /\ pc' = "epoch_head"
  /\ UNCHANGED <<idleVars, error, cfgVars, flow, trainVars, ckptVars, testVars>>

\* line 137: total_loss = 0 (variant: the accumulator is not reset)
ResetKeep(t) == t
ResetTotalLoss(t) == 0

\* lines 136-139: the next epoch of range(epochs) starts; total_loss = 0;
\* enumerate(tqdm(train_data)) makes a new iterator (a new sampler order)
EpochHead ==
  /\ pc = "epoch_head"
  /\ epoch < args.epochs
  /\ total_loss' = ResetTotalLoss(total_loss)
  /\ \E o \in Orders(train_set, args.train_shuffle) :
       train_iter' = Batches(o, args.train_batch_size)
  /\ i' = 0
  /\ epoch_losses' = <<>>
  /\ trace' = Append(trace, Ev("epoch", epoch, -1))
  /\ pc' = "batch"
  /\ UNCHANGED <<idleVars, error, cfgVars, params, mode, flow, epoch, batch, loss, grads,
                 report, ckptVars, testVars>>

\* line 136: range(epochs) is exhausted. The locals of the loop (i, batch, flow,
\* loss, total_loss, the iterator) and the gradients are never read after it:
\* the model forgets them here, with what the loop printed.
TrainingDone ==
  /\ pc = "epoch_head"
  /\ epoch >= args.epochs
  /\ pc' = "exists"
  /\ i' = 0 /\ train_iter' = <<>> /\ batch' = <<>> /\ flow' = <<>>
  /\ loss' = 0 /\ grads' = {} /\ total_loss' = 0
  /\ report' = NoReport /\ epoch_losses' = <<>>
  /\ UNCHANGED <<idleVars, error, cfgVars, trace, params, mode, epoch, ckptVars, testVars>>

\* lines 139-143: the iterator delivers batch i; forward pass
TrainForward ==
  /\ pc = "batch"
  /\ i < Len(train_iter)
  /\ \/ /\ batch' = train_iter[i + 1]
        /\ flow' = ModelForward(params, train_iter[i + 1])
        /\ trace' = Append(trace, Ev("forward", epoch, i))
        /\ pc' = "loss"
        /\ UNCHANGED <<idleVars, error, cfgVars, params, mode, epoch, i, train_iter, loss,
                       grads, total_loss, report, epoch_losses, ckptVars, testVars>>
     \/ Raise("RuntimeError")

\* lines 144-145: loss = compute_epe_error(flow, ground_truth_flow); print
ComputeLoss ==
  /\ pc = "loss"
  /\ \/ /\ \E l \in 0..MaxLoss : loss' = l /\ epoch_losses' = Append(epoch_losses, l)
        /\ trace' = Append(trace, Ev("loss", epoch, i))
        /\ pc' = "zero_grad"
        /\ UNCHANGED <<idleVars, error, cfgVars, params, mode, flow, epoch, i, train_iter,
                       batch, grads, total_loss, report, ckptVars, testVars>>
     \/ Raise("RuntimeError")

\* line 146
ZeroGrad ==
  /\ pc = "zero_grad"
  /\ grads' = {}
  /\ trace' = Append(trace, Ev("zero_grad", epoch, i))
  /\ pc' = "backward"
  /\ UNCHANGED <<idleVars, error, cfgVars, params, mode, flow, epoch, i, train_iter, batch,
                 loss, total_loss, report, epoch_losses, ckptVars, testVars>>

\* line 147
Backward ==
  /\ pc = "backward"
  /\ \/ /\ grads' = grads \cup {<<epoch, i>>}
        /\ trace' = Append(trace, Ev("backward", epoch, i))
        /\ pc' = "step"
        /\ UNCHANGED <<idleVars, error, cfgVars, params, mode, flow, epoch, i, train_iter,
                       batch, loss, total_loss, report, epoch_losses, ckptVars,
                       testVars>>
     \/ Raise("RuntimeError")

\* lines 148-150: optimizer.step(); total_loss += loss.item(); next i
OptimizerStep ==
  /\ pc = "step"
  /\ \/ /\ params' = AdamStep(params)
        /\ total_loss' = total_loss + loss
        /\ i' = i + 1
        /\ trace' = Append(trace, Ev("step", epoch, i))
        /\ pc' = "batch"
        /\ UNCHANGED <<idleVars, error, cfgVars, mode, flow, epoch, train_iter, batch, loss,
                       grads, report, epoch_losses, ckptVars, testVars>>
     \/ Raise("RuntimeError")

\* Python's a / b on numbers: the quotient (kept as the fraction a / b), or
\* ZeroDivisionError when b is 0 (variant: a division that never raises, as
\* that of tensors)
TrueDivNan(a, b) == [raises |-> FALSE, num |-> a, den |-> b]
TrueDiv(a, b) == [raises |-> (b = 0), num |-> a, den |-> b]

\* line 151: the iterator is exhausted; total_loss / len(train_data)
EpochEnd ==
  /\ pc = "batch"
  /\ i >= Len(train_iter)
  /\ LET n == LenLoader(train_set, args.train_batch_size)
         mean == TrueDiv(total_loss, n) IN
     \/ /\ ~mean.raises
        /\ report' = [epoch |-> epoch, num |-> mean.num, den |-> mean.den]
        /\ epoch' = epoch + 1
        /\ trace' = Append(trace, Ev("epoch_end", epoch, -1))
        /\ pc' = "epoch_head"
        /\ UNCHANGED <<idleVars, error, cfgVars, params, mode, flow, i, train_iter, batch,
                       loss, grads, total_loss, epoch_losses, ckptVars, testVars>>
     \/ /\ mean.raises
        /\ Raise("ZeroDivisionError")

\* line 168: os.path.exists('checkpoints')
Exists ==
  /\ pc = "exists"
  /\ \E b \in BOOLEAN :
       /\ dir_exists' = b
       /\ pc' = IF b THEN "strftime" ELSE "makedirs"
  /\ UNCHANGED <<idleVars, error, cfgVars, trace, params, mode, flow, trainVars,
                 current_time, model_path, ckpt_files, saved, testVars>>

\* line 169: os.makedirs('checkpoints')
Makedirs ==
  /\ pc = "makedirs"
  /\ \/ /\ dir_exists' = TRUE
        /\ trace' = Append(trace, Ev("makedirs", -1, -1))
        /\ pc' = "strftime"
        /\ UNCHANGED <<idleVars, error, cfgVars, params, mode, flow, trainVars,
                       current_time, model_path, ckpt_files, saved, testVars>>
     \/ Raise("OSError")

\* lines 171-172
MakeModelPath ==
  /\ pc = "strftime"
  /\ \E t \in 0..MaxClock :
       /\ current_time' = Strftime(t)
       /\ model_path' = CkptPath(Strftime(t))
  /\ pc' = "save"
  /\ UNCHANGED <<idleVars, error, cfgVars, trace, params, mode, flow, trainVars,
                 dir_exists, ckpt_files, saved, testVars>>

\* lines 173-174: torch.save(model.state_dict(), model_path)
Save ==
  /\ pc = "save"
  /\ \/ /\ \E cwd \in Cwds :
             /\ ckpt_files' = WriteFile(ckpt_files, Resolve(cwd, model_path), params)
             /\ saved' = [path |-> Resolve(cwd, model_path), state |-> params]
        /\ trace' = Append(trace, Ev("torch_save", -1, -1))
        /\ pc' = "load"
        /\ UNCHANGED <<idleVars, error, cfgVars, params, mode, flow, trainVars, dir_exists,
                       current_time, model_path, testVars>>
     \/ Raise("OSError")

\* lines 179-180: model_path = <the hardcoded path>;
\* model.load_state_dict(torch.load(model_path)). The file holds what this run
\* wrote there, if it wrote there, and otherwise whatever the file system holds
\* (another state_dict, or nothing: FileNotFoundError).
Load ==
  /\ pc = "load"
  /\ \/ /\ model_path' = HardcodedPath
        /\ params' = IF HardcodedPath \in DOMAIN ckpt_files
                     THEN ckpt_files[HardcodedPath]
                     ELSE ForeignParams
        /\ trace' = Append(trace, Ev("torch_load", -1, -1))
        /\ pc' = "eval"
        /\ UNCHANGED <<idleVars, error, cfgVars, mode, flow, trainVars, dir_exists,
                       current_time, ckpt_files, saved, testVars>>
     \/ Raise(IF HardcodedPath \in DOMAIN ckpt_files
              THEN "RuntimeError" ELSE "FileNotFoundError")

\* lines 181-185: model.eval(); flow = torch.tensor([]); the test iterator
StartTest ==
  /\ pc = "eval"
  /\ mode' = "eval"
  /\ flow' = <<>>
  /\ \E o \in Orders(test_set, args.test_shuffle) :
       test_iter' = Batches(o, args.test_batch_size)
  /\ j' = 0
  /\ trace' = Append(trace, Ev("test_iter", -1, -1))
  /\ pc' = "test"
  /\ UNCHANGED <<idleVars, error, cfgVars, params, trainVars, ckptVars, batch_preds, submission>>

\* lines 185-189: one test batch: flow_ = model(event_image);
\* flow = torch.cat((flow, flow_), dim=0)
TestBatch ==
  /\ pc = "test"
  /\ j < Len(test_iter)
  /\ \/ /\ LET flow_ == ModelForward(params, test_iter[j + 1]) IN
             /\ flow' = Cat(flow, flow_)
             /\ batch_preds' = Append(batch_preds, flow_)
        /\ j' = j + 1
        /\ trace' = Append(trace, Ev("test_batch", -1, j))
        /\ UNCHANGED <<idleVars, pc, error, cfgVars, params, mode, trainVars, ckptVars,
                       test_iter, submission>>
     \/ Raise("RuntimeError")

\* line 190: the test iterator is exhausted
TestDone ==
  /\ pc = "test"
  /\ j >= Len(test_iter)
  /\ pc' = "write"
  /\ UNCHANGED <<idleVars, error, cfgVars, trace, params, mode, flow, trainVars, ckptVars, testVars>>

\* lines 194-195: save_optical_flow_to_npy(flow, file_name)
SaveSubmission ==
  /\ pc = "write"
  /\ \/ /\ submission' = flow
        /\ trace' = Append(trace, Ev("np_save", -1, -1))
        /\ pc' = "done"
        /\ UNCHANGED <<idleVars, error, cfgVars, params, mode, flow, trainVars, ckptVars,
                       test_iter, j, batch_preds>>
     \/ Raise("OSError")

Next ==
  \/ SetSeed \/ BuildLoaders \/ BuildModel
  \/ EpochHead \/ TrainingDone \/ TrainForward \/ ComputeLoss \/ ZeroGrad
  \/ Backward \/ OptimizerStep \/ EpochEnd
  \/ Exists \/ Makedirs \/ MakeModelPath \/ Save \/ Load
  \/ StartTest \/ TestBatch \/ TestDone \/ SaveSubmission

Spec == Init /\ [][Next]_vars

\* ======================================================================
\* SpecEpe: compute_epe_error (lines 32-39) on tensors of bounded shapes
\* ======================================================================
Max(a, b) == IF a > b THEN a ELSE b
\* a shape padded on the left with 1s to rank n (broadcasting aligns shapes
\* from the trailing dimension)
PadShape(s, n) == [d \in 1..n |-> IF d <= n - Len(s) THEN 1 ELSE s[d - (n - Len(s))]]
\* torch broadcasting: two sizes are compatible when equal or when one is 1
Broadcastable(s, t) ==
  LET n == Max(Len(s), Len(t)) IN
  \A d \in 1..n :
    \/ PadShape(s, n)[d] = PadShape(t, n)[d]
    \/ PadShape(s, n)[d] = 1
    \/ PadShape(t, n)[d] = 1
BroadcastShape(s, t) ==
  LET n == Max(Len(s), Len(t)) IN
  [d \in 1..n |-> Max(PadShape(s, n)[d], PadShape(t, n)[d])]
\* a reduction over the (0-based) dimensions dims removes them
Reduce(s, dims) ==
  LET keep == {d \in 1..Len(s) : (d - 1) \notin dims}
      RECURSIVE Pick(_)
      Pick(d) == IF d > Len(s) THEN <<>>
                 ELSE IF d \in keep THEN <<s[d]>> \o Pick(d + 1) ELSE Pick(d + 1)
  IN Pick(1)

EpeError(kind) == [kind |-> kind, shape |-> <<>>]
\* line 38: torch.mean(torch.mean(torch.norm(pred_flow - gt_flow, p=2, dim=1),
\*                                dim=(1, 2)), dim=0), at the level of shapes
compute_epe_error(p, g) ==
  IF ~Broadcastable(p, g) THEN EpeError("RuntimeError")   \* pred_flow - gt_flow
  ELSE LET diff == BroadcastShape(p, g) IN
       IF Len(diff) < 2 THEN EpeError("IndexError")        \* norm(dim=1)
       ELSE LET norm == Reduce(diff, {1}) IN
            IF Len(norm) < 3 THEN EpeError("IndexError")   \* mean(dim=(1, 2))
            ELSE [kind |-> "tensor", shape |-> Reduce(Reduce(norm, {1, 2}), {0})]

\* [B, 2, H, W] tensors, every dimension in 1..MaxDim
Shapes == [1..4 -> 1..MaxDim]

InitEpe ==
  /\ pred_shape \in Shapes
  /\ gt_shape \in Shapes
  /\ epe = [kind |-> "idle", shape |-> <<>>]
  /\ MainIdle /\ SaveIdle

CallEpe ==
  /\ epe.kind = "idle"
  /\ epe' = compute_epe_error(pred_shape, gt_shape)
  /\ UNCHANGED <<pred_shape, gt_shape, mainVars, saveVars>>

NextEpe == CallEpe

SpecEpe == InitEpe /\ [][NextEpe]_vars

\* C6: compute_epe_error fails with a shape-mismatch error for every pair of
\* tensors whose shapes differ in any dimension, also when the differing
\* dimension has size 1 in one of them; it never returns a scalar for tensors
\* of differing shape.
C6_ShapeMismatchRejected ==
  (epe.kind # "idle" /\ pred_shape # gt_shape) =>
     /\ epe.kind = "RuntimeError"
     /\ epe # [kind |-> "tensor", shape |-> <<>>]

\* what does hold: shapes that cannot be broadcast together are rejected, and
\* every other pair of [B, 2, H, W] shapes yields a scalar
EpeRejectsOnlyUnbroadcastable ==
  epe.kind # "idle" =>
     /\ epe.kind = "RuntimeError" <=>
          \E d \in 1..4 : pred_shape[d] # gt_shape[d]
                          /\ pred_shape[d] # 1 /\ gt_shape[d] # 1
     /\ epe.kind # "RuntimeError" => epe = [kind |-> "tensor", shape |-> <<>>]

\* ======================================================================
\* SpecSave: lines 167-174 of two executions of main() that share the
\* working directory, interleaved statement by statement
\* ======================================================================
Runs == {1, 2}
NoRun == [pc |-> "exists", saw_dir |-> FALSE, made_dir |-> FALSE, read_at |-> -1,
          current_time |-> -1, model_path |-> NoPath, error |-> "none"]

InitSave ==
  /\ runs = [r \in Runs |-> NoRun]
  /\ ckpt_dir \in BOOLEAN
  /\ clock = 0
  /\ dir_files = <<>>
  /\ MainIdle /\ EpeIdle

\* line 168: if not os.path.exists('checkpoints')
RunExists(r) ==
  /\ runs[r].pc = "exists"
  /\ runs' = [runs EXCEPT ![r].saw_dir = ckpt_dir,
                          ![r].pc = IF ckpt_dir THEN "strftime" ELSE "makedirs"]
  /\ UNCHANGED <<ckpt_dir, clock, dir_files, mainVars, epeVars>>

\* line 169: os.makedirs('checkpoints'), which raises FileExistsError when the
\* directory exists by now
RunMakedirs(r) ==
  /\ runs[r].pc = "makedirs"
  /\ IF ckpt_dir
     THEN /\ runs' = [runs EXCEPT ![r].pc = "failed", ![r].error = "FileExistsError"]
          /\ UNCHANGED ckpt_dir
     ELSE /\ runs' = [runs EXCEPT ![r].pc = "strftime", ![r].made_dir = TRUE]
          /\ ckpt_dir' = TRUE
  /\ UNCHANGED <<clock, dir_files, mainVars, epeVars>>

\* lines 171-172
RunMakeModelPath(r) ==
  /\ runs[r].pc = "strftime"
  /\ runs' = [runs EXCEPT ![r].read_at = clock,
                          ![r].current_time = Strftime(clock),
                          ![r].model_path = CkptPath(Strftime(clock)),
                          ![r].pc = "save"]
  /\ UNCHANGED <<ckpt_dir, clock, dir_files, mainVars, epeVars>>

\* line 173: torch.save(model.state_dict(), model_path); the file holds the
\* state_dict of the run that wrote it last
RunSave(r) ==
  /\ runs[r].pc = "save"
  /\ dir_files' = WriteFile(dir_files, runs[r].model_path, r)
  /\ runs' = [runs EXCEPT ![r].pc = "saved"]
  /\ UNCHANGED <<ckpt_dir, clock, mainVars, epeVars>>

\* the wall clock advances
Tick ==
  /\ clock < MaxClock
  /\ clock' = clock + 1
  /\ UNCHANGED <<runs, ckpt_dir, dir_files, mainVars, epeVars>>

NextSave ==
  \/ \E r \in Runs : RunExists(r)
  \/ \E r \in Runs : RunMakedirs(r)
  \/ \E r \in Runs : RunMakeModelPath(r)
  \/ \E r \in Runs : RunSave(r)
  \/ Tick

SpecSave == InitSave /\ [][NextSave]_vars

BothSaved == \A r \in Runs : runs[r].pc = "saved"

\* C9: any two runs that reach the save step, at any wall-clock times (also
\* within the same second) and in the same checkpoints directory, write files
\* of different names, so neither overwrites the other's checkpoint; and the
\* save step succeeds both when the directory already exists and when it is
\* absent and the step creates it.
C9_DistinctNamesAndSaveSucceeds ==
  /\ BothSaved =>
       /\ runs[1].model_path # runs[2].model_path
       /\ DOMAIN dir_files = {runs[1].model_path, runs[2].model_path}
       /\ \A r \in Runs : dir_files[runs[r].model_path] = r
  /\ \A r \in Runs :
       (runs[r].saw_dir \/ runs[r].made_dir) => runs[r].pc # "failed"

\* C9 as amended: the names differ exactly when the two runs read the clock in
\* different seconds (in the same second the later write replaces the
\* earlier file); the save step succeeds when the directory exists at the
\* check of line 168 and when the run itself creates it, and fails with
\* FileExistsError only when another run created the directory between this
\* run's check and its makedirs.
C9_NamesDifferByTheSecond ==
  /\ BothSaved =>
       /\ (runs[1].model_path # runs[2].model_path) <=>
            (runs[1].read_at \div TicksPerSecond # runs[2].read_at \div TicksPerSecond)
       /\ DOMAIN dir_files = {runs[1].model_path, runs[2].model_path}
       /\ runs[1].model_path # runs[2].model_path =>
            \A r \in Runs : dir_files[runs[r].model_path] = r
  /\ \A r \in Runs :
       /\ runs[r].pc = "failed" =>
            /\ runs[r].error = "FileExistsError"
            /\ ~runs[r].saw_dir /\ ckpt_dir
            /\ \E q \in Runs \ {r} : runs[q].made_dir
       /\ (runs[r].saw_dir \/ runs[r].made_dir) => runs[r].pc # "failed"
       /\ runs[r].pc \in {"strftime", "save", "saved"} =>
            ckpt_dir /\ (runs[r].saw_dir \/ runs[r].made_dir)
C9_Witness ==
  /\ BothSaved
  /\ runs[1].read_at # runs[2].read_at
  /\ runs[1].model_path = runs[2].model_path
  /\ Cardinality(DOMAIN dir_files) = 1

\* ======================================================================
\* Properties of Spec
\* ======================================================================
TrainPcs == {"batch", "loss", "zero_grad", "backward", "step"}
AfterTraining == {"exists", "makedirs", "strftime", "save", "load", "eval",
                  "test", "write", "done"}
\* where the run is, or was when it failed
At == IF pc = "failed" THEN error.at ELSE pc
NumTrainBatches == LenLoader(train_set, args.train_batch_size)

\* ---- the order of the calls of the training loop
BatchOps == <<"forward", "loss", "zero_grad", "backward", "step">>
TrainOps == {"epoch", "forward", "loss", "zero_grad", "backward", "step", "epoch_end"}
\* the calls that precede the loop: set_seed, two DataLoaders, EVFlowNet, Adam
SetupLen == Len(<<"set_seed", "DataLoader_train", "DataLoader_test", "EVFlowNet", "Adam">>)
\* the k-th call of a run over epochs of B batches each
ExpectedTrainEvent(k, B) ==
  LET L == 5 * B + 2
      e == (k - 1) \div L
      r == (k - 1) % L
  IN IF r = 0 THEN Ev("epoch", e, -1)
     ELSE IF r = L - 1 THEN Ev("epoch_end", e, -1)
     ELSE Ev(BatchOps[((r - 1) % 5) + 1], e, (r - 1) \div 5)

\* Epochs 0, 1, ... in increasing order; in each, batches 0..B-1 in loader
\* order, each with forward, loss, zero_grad, backward, step in that order.
TrainingOrder ==
  /\ \A k \in DOMAIN trace :
       trace[k].op \in TrainOps =>
         /\ k > SetupLen
         /\ k - SetupLen <= args.epochs * (5 * NumTrainBatches + 2)
         /\ trace[k] = ExpectedTrainEvent(k - SetupLen, NumTrainBatches)
  /\ At \in {"loss", "zero_grad", "backward", "step"} =>
       /\ i < Len(train_iter) /\ batch = train_iter[i + 1]
       /\ Len(train_iter) = NumTrainBatches
  /\ At = "step" => grads = {<<epoch, i>>}
  /\ At \in AfterTraining =>
       /\ Count("step") = args.epochs * NumTrainBatches
       /\ Count("epoch_end") = args.epochs

\* C2: TrainingLoop visits epochs 0..E-1 in order and, in each, every batch
\* once in loader order, with forward, loss, zero_grad, backward and one
\* optimizer step in that order; the parameters are mutated exactly E*B times
\* in total and never outside a training batch.
C2_ParamsMutatedOnlyByTrainingBatches ==
  /\ []TrainingOrder
  /\ [][(params.origin # "none" /\ params' # params) => pc = "step"]_vars

\* ---- the order of the pipeline
PipelineOrder ==
  /\ Count("set_seed") <= 1 /\ Count("torch_save") <= 1
  /\ Count("torch_load") <= 1 /\ Count("np_save") <= 1
  /\ Count("test_iter") <= 1
  /\ \A op \in {"DataLoader_train", "DataLoader_test", "EVFlowNet", "Adam"} :
       Count(op) > 0 => Count("set_seed") = 1 /\ First("set_seed") < First(op)
  /\ Count("torch_save") = 1 =>
       /\ Count("epoch_end") = args.epochs
       /\ Last("step") < First("torch_save")
       /\ Last("epoch_end") < First("torch_save")
  /\ Count("torch_load") = 1 =>
       Count("torch_save") = 1 /\ First("torch_save") < First("torch_load")
  /\ Count("test_batch") > 0 =>
       Count("torch_load") = 1 /\ First("torch_load") < First("test_batch")
  /\ Count("np_save") = 1 =>
       /\ Count("test_batch") = Len(test_iter)
       /\ Last("test_batch") < First("np_save")
       /\ Last("test_iter") < First("np_save")
  /\ pc = "done" =>
       /\ Count("set_seed") = 1 /\ Count("torch_save") = 1
       /\ Count("torch_load") = 1 /\ Count("np_save") = 1
       /\ Cardinality(DOMAIN ckpt_files) = 1
       /\ submission = flow

\* C3: in every run that completes the steps happen in the order seed ->
\* training epochs -> checkpoint save -> checkpoint load -> inference ->
\* submission write; seed once, before any model or loader; the checkpoint is
\* written once, after the last epoch, and it (the file written) is read back
\* once, before the first inference batch; the submission is written once,
\* after the last test batch.
C3_PipelineOrderAndReadBack ==
  /\ PipelineOrder
  /\ pc = "done" => model_path = saved.path

\* C4: the checkpoint read back before inference is the checkpoint created
\* after training: the parameters the model holds when the first test batch is
\* processed equal the state passed to save.
C4_LoadedStateIsSavedState ==
  At \in {"eval", "test", "write", "done"} =>
     /\ model_path = saved.path
     /\ params = saved.state

\* C5: the test loader never shuffles, whatever data_loader.test.shuffle is:
\* it is iterated once, in dataset order, and row i of the submission array is
\* the prediction for the i-th test sample.
C5_TestLoaderNeverShuffles ==
  /\ Count("test_iter") <= 1
  /\ At \in {"write", "done"} =>
       /\ Len(flow) = test_set
       /\ \A r \in 1..Len(flow) : flow[r].sample = r

\* ---- InferenceRunner
\* the number of rows before test batch b
RECURSIVE Offset(_)
Offset(b) == IF b <= 1 THEN 0 ELSE Offset(b - 1) + Len(test_iter[b - 1])

\* C1: for every sequence of test batches the loader delivers, the submission
\* tensor is the concatenation, along the batch dimension, of the per-batch
\* predictions in encounter order: after b batches it has size(b1)+...+size(bb)
\* rows and row k of batch m is row Offset(m) + k; after the loop it has
\* N = len(test_set) rows.
C1_SubmissionIsConcatenation ==
  At \in {"test", "write", "done"} =>
     /\ Len(batch_preds) = j
     /\ \A m \in 1..j : batch_preds[m] = ModelForward(params, test_iter[m])
     /\ Len(flow) = Offset(j + 1)
     /\ \A m \in 1..j : \A k \in 1..Len(test_iter[m]) :
          flow[Offset(m) + k] = batch_preds[m][k]
     /\ At \in {"write", "done"} => j = Len(test_iter) /\ Len(flow) = test_set
     /\ pc = "done" => submission = flow
C1_Witness ==
  /\ pc = "done"
  /\ Len(test_iter) = 2 /\ Len(test_iter[1]) = 2 /\ Len(test_iter[2]) = 1
  /\ Len(submission) = 3

\* ---- epoch mean
\* C7: with B >= 1 training batches, the loss reported at the end of an epoch
\* is (the sum of the per-batch losses of that epoch only) / B: the
\* accumulator is reset at the start of each epoch and every batch, full or
\* partial, counts once.
C7_EpochMean ==
  (pc = "epoch_head" /\ epoch >= 1) =>
     /\ NumTrainBatches >= 1
     /\ report.epoch = epoch - 1
     /\ Len(epoch_losses) = NumTrainBatches
     /\ report.num = SumSeq(epoch_losses)
     /\ report.den = NumTrainBatches
C7_Witness ==
  /\ pc = "epoch_head" /\ epoch = 2
  /\ train_set = 2 /\ args.train_batch_size = 1
  /\ report = [epoch |-> 1, num |-> 1, den |-> 2]
  /\ epoch_losses = <<0, 1>>

\* ---- failures
OpRank(op) ==
  CASE op = "set_seed" -> 1
    [] op \in {"DataLoader_train", "DataLoader_test"} -> 2
    [] op \in {"EVFlowNet", "Adam"} -> 3
    [] op \in TrainOps -> 4
    [] op = "makedirs" -> 5
    [] op = "torch_save" -> 6
    [] op = "torch_load" -> 7
    [] op \in {"test_iter", "test_batch"} -> 8
    [] op = "np_save" -> 9
PcRank(p) ==
  CASE p = "set_seed" -> 1
    [] p = "build_loaders" -> 2
    [] p = "build_model" -> 3
    [] p \in TrainPcs \cup {"epoch_head"} -> 4
    [] p \in {"exists", "makedirs"} -> 5
    [] p \in {"strftime", "save"} -> 6
    [] p = "load" -> 7
    [] p \in {"eval", "test"} -> 8
    [] p = "write" -> 9
    [] OTHER -> 10
FailureIsFatal ==
  error # NoError =>
     /\ pc = "failed"
     \* no later step of the pipeline was executed
     /\ \A k \in DOMAIN trace : OpRank(trace[k].op) <= PcRank(error.at)
     \* the failed call itself was not completed
     /\ error.at = "step" => Count("step") = epoch * NumTrainBatches + i
     /\ error.at \in TrainPcs =>
          ckpt_files = <<>> /\ saved = NoSave /\ submission = NoFile
     /\ error.at \in {"makedirs", "save"} => ckpt_files = <<>>
     /\ error.at # "write" => submission = NoFile /\ Count("np_save") = 0

\* C8: every error is fatal and nothing is retried: after a failed step no
\* later step runs and the step is not re-attempted; a failure in a training
\* batch leaves no checkpoint and no submission written by the run, a failed
\* checkpoint load leaves no submission written.
C8_ErrorsAreFatal ==
  /\ []FailureIsFatal
  /\ [][pc = "failed" => UNCHANGED vars]_vars
C8_Witness ==
  /\ pc = "failed" /\ error.at = "step" /\ epoch = 1 /\ i = 1
  /\ ckpt_files = <<>> /\ submission = NoFile

\* C10: a training loader of zero batches with epochs >= 1 fails at the end
\* of epoch 0 with a division by zero, before any optimizer step, checkpoint
\* write or inference; with epochs = 0 the loop body never runs and the
\* initial parameters are what is saved.
C10_EmptyLoaderOrNoEpochs ==
  /\ (NumTrainBatches = 0 /\ args.epochs >= 1) =>
        /\ At \in {"set_seed", "build_loaders", "build_model", "epoch_head", "batch"}
        /\ epoch = 0
        /\ Count("forward") = 0 /\ Count("step") = 0 /\ Count("epoch_end") = 0
        /\ Count("torch_save") = 0 /\ ckpt_files = <<>>
        /\ Count("test_iter") = 0 /\ submission = NoFile
        /\ (pc = "failed" /\ error.at = "batch") => error.kind = "ZeroDivisionError"
        /\ (pc = "batch") => (i >= Len(train_iter) /\ ~ENABLED TrainForward)
  /\ args.epochs = 0 =>
        /\ Count("epoch") = 0 /\ Count("forward") = 0 /\ Count("step") = 0
        /\ At \notin TrainPcs
        /\ At \in AfterTraining \ {"eval", "test", "write", "done"} => params = InitParams
        /\ saved # NoSave => saved.state = InitParams
C10_Witness ==
  /\ pc = "failed" /\ error = [kind |-> "ZeroDivisionError", at |-> "batch"]
  /\ args.epochs >= 1 /\ train_set = 0 /\ trace[Len(trace)] = Ev("epoch", 0, -1)

====
